---- MODULE Spec2Model ----
(***************************************************************************)
(* Request mediation of the Met Museum backend (src/server.js):            *)
(* makeMetApiRequest = cache lookup, then a p-queue task that performs     *)
(* the upstream call, stores the payload, and on HTTP 403 waits a backoff  *)
(* delay and calls makeMetApiRequest again from inside the task.           *)
(* The earlier version of the server (src/unnamed/part_000) is the same    *)
(* program without the retry, without timeouts, with a wider queue, and    *)
(* with the 403 error replaced by a generic one; SpecEither runs both.     *)
(*                                                                         *)
(* Time is in milliseconds.  Every timer of the program (the axios         *)
(* timeout, the backoff setTimeout, the queue's per-task timeout, the      *)
(* queue's interval, the cache TTL) is a countdown; Advance moves the      *)
(* clock to the next deadline.                                             *)
(***************************************************************************)
EXTENDS Integers, Sequences, FiniteSets, TLC

\* ---------------------------------------------------------------- bounds
NCalls == 2                      \* top-level calls of makeMetApiRequest

Calls == 1..NCalls
Keys == {"k1", "k2"}             \* cache keys the callers use
Truthy == {"objA"}               \* a JSON payload that is truthy in JS
Falsy == {"zero"}                \* a JSON payload that is falsy in JS (0)
Payloads == Truthy \cup Falsy
Latencies == {200, 15000}        \* upstream response times (ms)
Jitters == {0, 999}              \* floor of Math.random() * 1000

\* ---------------------------------------------------- program constants
stdTTL == 3600                   \* new NodeCache({ stdTTL: 3600 }), seconds
AxiosTimeout == 15000            \* axios.get(..., { timeout: 15000 })
MaxRetry == 3                    \* retryCount < 3
BackoffBase == 2000              \* Math.pow(2, retryCount) * 2000
Levels == 0..MaxRetry            \* values of retryCount

\* new PQueue({ concurrency: 3, intervalCap: 10, interval: 2000, timeout: 30000 })
queue == [concurrency |-> 3, intervalCap |-> 10, interval |-> 2000, timeout |-> 30000]
\* the scheduler scenario of the specification: one slot, one start per second
TunedQueue == [concurrency |-> 1, intervalCap |-> 1, interval |-> 1000, timeout |-> 30000]

TTLms == stdTTL * 1000

Undefined == "undefined"         \* JS undefined
NoKey == "-"
Idle == 0 - 1                    \* a timer that is not armed
Forever == 0 - 2                 \* a task that no timeout bounds

\* part_000: new PQueue({ concurrency: 5, intervalCap: 70, interval: 1000 })
queue000 == [concurrency |-> 5, intervalCap |-> 70, interval |-> 1000, timeout |-> Forever]

HttpErrors == {"HTTP403", "HTTP404"}          \* error.response.status
NetErrors == {"ECONNRESET", "ECONNABORTED"}   \* no error.response
Outcomes == Payloads \cup {"HTTP403", "HTTP404", "ECONNRESET"}

VARIABLES
  opts,          \* the options the queue was constructed with
  cache,         \* metApiCache: key -> stored payload, or Undefined
  ttlLeft,       \* metApiCache: key -> ms until the entry expires
  pqueue,        \* queue: calls whose task waits for admission, FIFO
  intervalCount, \* queue: tasks started in the current interval
  intervalLeft,  \* queue: ms until the interval ends, Idle if none runs
  pc,            \* call -> position of its innermost makeMetApiRequest
  key,           \* call -> cacheKey
  retryCount,    \* call -> retryCount of its innermost invocation
  taskLeft,      \* call -> level -> ms until the queue times the task of
                 \*   that level out, Idle if that task is not executing
  latency,       \* call -> response time of the current upstream call
  httpLeft,      \* call -> ms until axios.get settles
  backoffLeft,   \* call -> ms until the backoff setTimeout fires
  result,        \* call -> what the top-level caller received
  upstreamCalls, \* call -> number of axios.get calls made for it
  submitted,     \* history: tasks <<call, level>> in the order of queue.add
  started,       \* history: tasks in the order in which they began to execute
  answers,       \* history: call -> the outcomes of its axios.get calls
  seen,          \* history: call -> the cache entry at its top-level lookup, and
                 \*   the payloads earlier calls with that key had returned
  contended,     \* history: a task began while another stayed queued behind it
  startsInWindow \* history: tasks begun since the interval last began

vars == <<opts, cache, ttlLeft, pqueue, intervalCount, intervalLeft, pc, key,
          retryCount, taskLeft, latency, httpLeft, backoffLeft, result,
          upstreamCalls, submitted, started, answers, seen, contended,
          startsInWindow>>

\* the lookup a call has not made yet
NotSeen == [stored |-> Undefined, ttl |-> 0, cachedData |-> Undefined, returned |-> {}]
Pending == [kind |-> "pending", data |-> Undefined]
Value(v) == [kind |-> "value", data |-> v]
Thrown(e) == [kind |-> "error", data |-> e]

Min(S) == CHOOSE x \in S : \A y \in S : x <= y
Range(s) == {s[i] : i \in 1..Len(s)}
Pow2(n) == IF n = 0 THEN 1 ELSE IF n = 1 THEN 2 ELSE IF n = 2 THEN 4 ELSE 8

Max0(x) == IF x < 0 THEN 0 ELSE x

\* which file runs: each constructs its own queue
Part000 == opts = queue000

\* axios gives up on a call that takes l ms (part_000 sets no axios timeout)
AxiosGivesUp(l) == ~Part000 /\ l >= AxiosTimeout

\* what the task's catch block throws for error e: part_000 replaces a 403
\* by new Error("Met Museum API: Rate limit exceeded or forbidden.")
Rethrown(e) == IF Part000 /\ e = "HTTP403" THEN "RateLimitError" ELSE e

\* ------------------------------------------------------- the cache store
\* faulty variant: entries never expire
ExpiredNever(k) == FALSE

\* node-cache: an entry is alive until its TTL has elapsed
Expired(k) == cache[k] # Undefined /\ ttlLeft[k] = 0

\* metApiCache.get(cacheKey)
Get(k) == IF cache[k] # Undefined /\ ~Expired(k) THEN cache[k] ELSE Undefined

\* if (cachedData)
CacheHit(k) == Get(k) \in Truthy

\* faulty variant: the payload is stored under another key
CacheSetOtherKey(s, k, v) ==
  LET o == CHOOSE x \in Keys : x # k
  IN [s EXCEPT !.cache[o] = v, !.ttlLeft[o] = TTLms]

\* metApiCache.set(cacheKey, response.data)
CacheSet(s, k, v) == [s EXCEPT !.cache[k] = v, !.ttlLeft[k] = TTLms]

\* ----------------------------------------------------- the retry policy
\* faulty variant: every HTTP error status is retried
RetryAllowedAnyStatus(e, rc) == e \in HttpErrors /\ rc < MaxRetry

\* faulty variant: errors without a response are retried as well
RetryAllowedNet(e, rc) == e \in {"HTTP403", "ECONNRESET", "ECONNABORTED"} /\ rc < MaxRetry

\* error.response && error.response.status === 403 && retryCount < 3
RetryAllowed(e, rc) == e = "HTTP403" /\ rc < MaxRetry

\* faulty variant: the delay grows linearly
BackoffDelayLinear(rc, j) == (rc + 1) * BackoffBase + j

\* Math.pow(2, retryCount) * 2000 + Math.random() * 1000, whole ms
BackoffDelay(rc, j) == Pow2(rc) * BackoffBase + j

\* --------------------------------------------------------- the scheduler
\* the mutable state, as one record, so that a handler is a composition
Cur ==
  [cache |-> cache, ttlLeft |-> ttlLeft, pqueue |-> pqueue,
   intervalCount |-> intervalCount, intervalLeft |-> intervalLeft,
   pc |-> pc, key |-> key, retryCount |-> retryCount, taskLeft |-> taskLeft,
   latency |-> latency, httpLeft |-> httpLeft, backoffLeft |-> backoffLeft,
   result |-> result, upstreamCalls |-> upstreamCalls,
   submitted |-> submitted, started |-> started, answers |-> answers,
   seen |-> seen]

Commit(s) ==
  /\ cache' = s.cache /\ ttlLeft' = s.ttlLeft /\ pqueue' = s.pqueue
  /\ intervalCount' = s.intervalCount /\ intervalLeft' = s.intervalLeft
  /\ pc' = s.pc /\ key' = s.key /\ retryCount' = s.retryCount
  /\ taskLeft' = s.taskLeft /\ latency' = s.latency /\ httpLeft' = s.httpLeft
  /\ backoffLeft' = s.backoffLeft /\ result' = s.result
  /\ upstreamCalls' = s.upstreamCalls
  /\ submitted' = s.submitted /\ started' = s.started
  /\ answers' = s.answers /\ seen' = s.seen
  /\ contended' = (contended \/ (Len(s.started) > Len(started) /\ s.pqueue # <<>>
                                   /\ Len(pqueue) >= 2))
  /\ startsInWindow' =
       (IF intervalLeft = Idle \/ (intervalLeft = 0 /\ s.intervalLeft # 0)
        THEN 0 ELSE startsInWindow) + (Len(s.started) - Len(started))
  /\ opts' = opts

\* tasks that hold a concurrency slot: started, neither settled nor timed out
Executing(tl) == {t \in Calls \X Levels : tl[t[1]][t[2]] # Idle}
pendingCount(tl) == Cardinality(Executing(tl))

\* faulty variant: the interval cap is not consulted
AdmissibleNoCap(s) ==
  Min({Len(s.pqueue), Max0(opts.concurrency - pendingCount(s.taskLeft))})

\* faulty variant: the concurrency limit is not consulted
AdmissibleNoConcurrency(s) ==
  Min({Len(s.pqueue), Max0(opts.intervalCap - s.intervalCount)})

\* how many queued tasks may start now: concurrency and intervalCap
Admissible(s) ==
  Min({Len(s.pqueue),
       Max0(opts.concurrency - pendingCount(s.taskLeft)),
       Max0(opts.intervalCap - s.intervalCount)})

\* the queue starts queued tasks, head first, while both limits allow; a
\* started task arms the queue's timeout and calls axios.get at once
ProcessQueue(s) ==
  LET n == Admissible(s)
      batch == {s.pqueue[i] : i \in 1..n}
  IN [s EXCEPT
        !.pqueue = SubSeq(s.pqueue, n + 1, Len(s.pqueue)),
        !.intervalCount = @ + n,
        !.intervalLeft = IF n > 0 /\ @ = Idle THEN opts.interval ELSE @,
        !.pc = [c \in Calls |-> IF c \in batch THEN "fetching" ELSE s.pc[c]],
        !.taskLeft = [c \in Calls |->
            IF c \in batch
            THEN [s.taskLeft[c] EXCEPT ![s.retryCount[c]] = opts.timeout]
            ELSE s.taskLeft[c]],
        !.httpLeft = [c \in Calls |->
            IF c \in batch
            THEN (IF AxiosGivesUp(s.latency[c]) THEN AxiosTimeout ELSE s.latency[c])
            ELSE s.httpLeft[c]],
        !.upstreamCalls = [c \in Calls |->
            IF c \in batch THEN s.upstreamCalls[c] + 1 ELSE s.upstreamCalls[c]],
        !.started = s.started \o
            [i \in 1..n |-> <<s.pqueue[i], s.retryCount[s.pqueue[i]]>>]]

\* faulty variant: the task is put at the head of the waiting tasks
AddFront(s, c, l) ==
  [s EXCEPT !.pqueue = <<c>> \o @,
            !.pc[c] = "queued",
            !.latency[c] = l,
            !.submitted = Append(@, <<c, s.retryCount[c]>>)]

\* faulty variant: a request joins the request in flight for the same key
AddCoalesced(s, c, l) ==
  IF \E d \in Calls \ {c} : s.key[d] = s.key[c] /\ s.pc[d] \in {"queued", "fetching", "backoff"}
  THEN [s EXCEPT !.pc[c] = "done"]
  ELSE [s EXCEPT !.pqueue = Append(@, c),
                 !.pc[c] = "queued",
                 !.latency[c] = l,
                 !.submitted = Append(@, <<c, s.retryCount[c]>>)]

\* queue.add(task) by the invocation of call c with the current retryCount
Add(s, c, l) ==
  [s EXCEPT !.pqueue = Append(@, c),
            !.pc[c] = "queued",
            !.latency[c] = l,
            !.submitted = Append(@, <<c, s.retryCount[c]>>)]

\* the function of call c's task of level d returns or throws o: the promise
\* of every task of the chain that still executes settles with o and its
\* slot is freed; the caller gets o if the outermost task still executes
Settle(s, c, o) ==
  [s EXCEPT !.taskLeft[c] = [k \in Levels |-> Idle],
            !.result[c] = IF s.taskLeft[c][0] # Idle THEN o ELSE @,
            !.pc[c] = "done",
            !.latency[c] = 0,
            !.httpLeft[c] = Idle,
            !.backoffLeft[c] = Idle]

\* what queue.add's promise settles with when the task times out
TimeoutOutcome == Value(Undefined)

\* the queue's timeout of call c's task of level k: the promise fulfils,
\* the slot is freed, the task's function runs on detached
TimedOut(s, c, k) ==
  [s EXCEPT !.taskLeft[c] = [j \in Levels |-> IF j <= k THEN Idle ELSE @[j]],
            !.result[c] = IF s.taskLeft[c][0] # Idle THEN TimeoutOutcome ELSE @]

\* ------------------------------------------------------------------ Init
InitWith(o) ==
  /\ opts = o
  /\ cache = [k \in Keys |-> Undefined]
  /\ ttlLeft = [k \in Keys |-> 0]
  /\ pqueue = <<>>
  /\ intervalCount = 0
  /\ intervalLeft = Idle
  /\ pc = [c \in Calls |-> "idle"]
  /\ key = [c \in Calls |-> NoKey]
  /\ retryCount = [c \in Calls |-> 0]
  /\ taskLeft = [c \in Calls |-> [k \in Levels |-> Idle]]
  /\ latency = [c \in Calls |-> 0]
  /\ httpLeft = [c \in Calls |-> Idle]
  /\ backoffLeft = [c \in Calls |-> Idle]
  /\ result = [c \in Calls |-> Pending]
  /\ upstreamCalls = [c \in Calls |-> 0]
  /\ submitted = <<>>
  /\ started = <<>>
  /\ answers = [c \in Calls |-> <<>>]
  /\ seen = [c \in Calls |-> NotSeen]
  /\ contended = FALSE
  /\ startsInWindow = 0

Init == InitWith(queue)

\* --------------------------------------------------------------- actions
\* a caller invokes makeMetApiRequest(urlPath, cacheKey)
Call(c, k, l) ==
  /\ pc[c] = "idle"
  /\ \A d \in Calls : d < c => pc[d] # "idle"
  /\ LET look == [stored |-> cache[k], ttl |-> ttlLeft[k], cachedData |-> Get(k),
                  returned |-> {result[d].data :
                     d \in {x \in Calls : key[x] = k /\ result[x].kind = "value"}}]
     IN IF CacheHit(k)
        THEN Commit([Cur EXCEPT !.key[c] = k, !.pc[c] = "done",
                                !.seen[c] = look,
                                !.result[c] = Value(Get(k))])
        ELSE Commit(ProcessQueue(Add(
               [Cur EXCEPT !.key[c] = k, !.seen[c] = look,
                           !.cache[k] = IF Expired(k) THEN Undefined ELSE @],
               c, l)))

\* axios.get of call c settles with outcome o
HttpRespond(c, o, j) ==
  /\ pc[c] = "fetching"
  /\ httpLeft[c] = 0
  /\ LET out == IF AxiosGivesUp(latency[c]) THEN "ECONNABORTED" ELSE o
     IN IF out \in Payloads
        THEN Commit(ProcessQueue(Settle(
               CacheSet([Cur EXCEPT !.answers[c] = Append(@, out)], key[c], out),
               c, Value(out))))
        ELSE IF ~Part000 /\ RetryAllowed(out, retryCount[c])
        THEN Commit([Cur EXCEPT !.pc[c] = "backoff", !.httpLeft[c] = Idle,
                       !.latency[c] = 0,
                       !.answers[c] = Append(@, out),
                       !.backoffLeft[c] = BackoffDelay(retryCount[c], j)])
        ELSE Commit(ProcessQueue(Settle(
               [Cur EXCEPT !.answers[c] = Append(@, out)], c,
               Thrown(Rethrown(out)))))

\* the backoff timer fires: return makeMetApiRequest(urlPath, cacheKey, retryCount + 1)
BackoffExpire(c, l) ==
  /\ pc[c] = "backoff"
  /\ backoffLeft[c] = 0
  /\ IF CacheHit(key[c])
     THEN Commit(ProcessQueue(Settle(Cur, c, Value(Get(key[c])))))
     ELSE Commit(ProcessQueue(Add(
            [Cur EXCEPT !.retryCount[c] = @ + 1,
                        !.backoffLeft[c] = Idle,
                        !.cache[key[c]] = IF Expired(key[c]) THEN Undefined ELSE @],
            c, l)))

\* the queue's timeout of an executing task elapses
Timeout(c, k) ==
  /\ taskLeft[c][k] = 0
  /\ Commit(ProcessQueue(TimedOut(Cur, c, k)))

\* the queue's interval ends: the count resets and waiting tasks start
IntervalEnd ==
  /\ intervalLeft = 0
  /\ LET s == ProcessQueue([Cur EXCEPT !.intervalCount = 0, !.intervalLeft = Idle])
     IN Commit([s EXCEPT !.intervalLeft =
                  IF s.pqueue # <<>> THEN opts.interval ELSE @])

\* time passes up to the next deadline (or to 1 ms before a cache expiry)
Due ==
  {taskLeft[t[1]][t[2]] : t \in {x \in Executing(taskLeft) :
                                   taskLeft[x[1]][x[2]] # Forever}}
    \cup {httpLeft[c] : c \in {x \in Calls : pc[x] = "fetching"}}
    \cup {backoffLeft[c] : c \in {x \in Calls : pc[x] = "backoff"}}
    \cup (IF intervalLeft # Idle THEN {intervalLeft} ELSE {})

Deadlines ==
  Due \cup {ttlLeft[k] : k \in {x \in Keys : ttlLeft[x] > 0}}
      \cup {ttlLeft[k] - 1 : k \in {x \in Keys : ttlLeft[x] > 1}}

Advance ==
  /\ 0 \notin Due
  /\ Deadlines # {}
  /\ LET d == Min(Deadlines)
         dec(x) == IF x > 0 THEN x - d ELSE x
     IN Commit([Cur EXCEPT
          !.ttlLeft = [k \in Keys |-> dec(ttlLeft[k])],
          !.intervalLeft = dec(@),
          !.taskLeft = [c \in Calls |-> [k \in Levels |-> dec(taskLeft[c][k])]],
          !.httpLeft = [c \in Calls |-> dec(httpLeft[c])],
          !.backoffLeft = [c \in Calls |-> dec(backoffLeft[c])]])

Next ==
  \/ \E c \in Calls, k \in Keys, l \in Latencies : Call(c, k, l)
  \/ \E c \in Calls, o \in Outcomes, j \in Jitters : HttpRespond(c, o, j)
  \/ \E c \in Calls, l \in Latencies : BackoffExpire(c, l)
  \/ \E c \in Calls, k \in Levels : Timeout(c, k)
  \/ IntervalEnd
  \/ Advance

Spec == Init /\ [][Next]_vars

\* the same program with the queue constructed either as in server.js or as
\* in the scheduler scenario (the options are fixed at construction)
InitTuned == InitWith(queue) \/ InitWith(TunedQueue)
SpecTuned == InitTuned /\ [][Next]_vars

\* ------------------------------------------- the composite search routes
\* /api/search/artist and /api/search/department, after the ID search: the
\* calls 1..NCalls are the detail fetches of searchData.objectIDs, in order
JsNull == "null"

\* makeMetApiRequest(...).catch((err) => null)
CatchNull(r) == IF r.kind = "error" THEN Value(JsNull) ELSE r

\* .filter((result) => result.status === "fulfilled" && result.value !== null)
Kept(r) == r.kind = "value" /\ r.data # JsNull

\* the artworks array that res.json sends once every detail promise settled
artworks ==
  LET settled == [c \in Calls |-> CatchNull(result[c])]
      kept == SelectSeq(settled, Kept)
  IN [i \in 1..Len(kept) |-> kept[i].data]

\* either file of the server: src/server.js or src/unnamed/part_000
InitEither == InitWith(queue) \/ InitWith(queue000)
SpecEither == InitEither /\ [][Next]_vars

\* ================================================================ claims
All403(c) == answers[c] # <<>> /\ \A i \in 1..Len(answers[c]) : answers[c][i] = "HTTP403"
Alone(c) == \A d \in Calls \ {c} : pc[d] = "idle"
Returned(c) == result[c].kind # "pending"
Fetching == {c \in Calls : pc[c] = "fetching"}

\* C1: a cache-missing request whose upstream calls all answer 403 has, when
\* its caller gets the outcome, made MaxRetry + 1 = 4 upstream calls, and the
\* outcome is the 403 failure; also when it is the only request in the system.
C1_RetryBound ==
  \A c \in Calls :
    (Alone(c) /\ All403(c) /\ Returned(c))
      => (upstreamCalls[c] = MaxRetry + 1 /\ result[c] = Thrown("HTTP403"))

\* C2: never more than `concurrency` queue tasks execute, and every upstream
\* call in flight belongs to an executing task, so never more than
\* `concurrency` upstream calls are in flight.
C2_ConcurrencyBound ==
  /\ pendingCount(taskLeft) <= opts.concurrency
  /\ \A c \in Fetching : taskLeft[c][retryCount[c]] # Idle
  /\ Cardinality(Fetching) <= opts.concurrency

\* C2 witness: all slots are taken, one of them by a task that waits out a
\* 403 backoff, and a task of another request waits in the queue
C2_Witness ==
  /\ pendingCount(taskLeft) = opts.concurrency
  /\ \E c \in Calls : pc[c] = "backoff"
  /\ \E c \in Calls : pc[c] = "queued" /\ retryCount[c] = 0

\* C3: within one interval of the queue at most intervalCap tasks begin, a
\* retry attempt counting like any other task; and when the cap of the running
\* interval is used up, a task begins only at the step that ends the interval.
C3_WindowBound ==
  [][started' # started =>
       /\ startsInWindow' <= opts.intervalCap
       /\ (startsInWindow >= opts.intervalCap /\ intervalLeft # Idle)
            => intervalLeft = 0]_vars

\* C3 witness: the cap of the running interval is used up by a retry attempt
\* and a queued task waits although a slot is free
C3_Witness ==
  /\ opts = TunedQueue
  /\ startsInWindow = opts.intervalCap
  /\ intervalLeft > 0
  /\ pqueue # <<>>
  /\ pendingCount(taskLeft) < opts.concurrency
  /\ started # <<>> /\ started[Len(started)][2] > 0

\* C4: a request whose upstream answers were 403, 403, then 200 with payload
\* v has returned v to its caller (no error), in every interleaving.
C4_TwoRetriesThenSuccess ==
  \A c \in Calls :
    (Len(answers[c]) = 3 /\ answers[c][1] = "HTTP403" /\ answers[c][2] = "HTTP403"
       /\ answers[c][3] \in Payloads)
      => result[c] = Value(answers[c][3])

\* C5: a call that starts while the unexpired entry of its key holds a payload
\* v that an earlier call with that key returned, for any JSON payload v, makes
\* no upstream call and returns v.
C5_Idempotence ==
  \A c \in Calls :
    (pc[c] # "idle" /\ seen[c].ttl > 0 /\ seen[c].stored \in Payloads
       /\ seen[c].stored \in seen[c].returned)
      => (upstreamCalls[c] = 0 /\ result[c] = Value(seen[c].stored))

\* C6: a call that finds an unexpired cache entry for its key returns at once
\* and never adds a task to the queue.
C6_HitBypassesQueue ==
  \A c \in Calls :
    (pc[c] # "idle" /\ seen[c].ttl > 0 /\ seen[c].stored # Undefined)
      => (pc[c] = "done" /\ <<c, 0>> \notin Range(submitted))

C8_Fifo ==
  /\ Len(started) <= Len(submitted)
  /\ \A i \in 1..Len(started) : started[i] = submitted[i]

\* C8 witness: a task has begun while a later one stayed queued behind it
C8_Witness == contended /\ Len(started) >= 2

\* C9: a request that waits out a 403 backoff holds no concurrency slot.
C9_BackoffHoldsNoSlot ==
  \A c \in Calls : pc[c] = "backoff" => \A k \in Levels : taskLeft[c][k] = Idle

NetCount(c) == Cardinality({i \in 1..Len(answers[c]) : answers[c][i] \in NetErrors})

\* C10: a request fails with a network error only after a network error was
\* retried at least once (a retry budget of one or more).
C10_NetworkRetry ==
  \A c \in Calls :
    (result[c].kind = "error" /\ result[c].data \in NetErrors) => NetCount(c) > 1

\* C10 amended: a network error is never retried: it is the last answer of the
\* request, no backoff is armed, no further upstream call is made, and the
\* caller gets that error unless the queue had timed its task out before.
C10_NoNetworkRetry ==
  \A c \in Calls : \A i \in 1..Len(answers[c]) :
    answers[c][i] \in NetErrors =>
      /\ i = Len(answers[c]) /\ upstreamCalls[c] = i
      /\ pc[c] = "done" /\ backoffLeft[c] = Idle
      /\ result[c] \in {Thrown(answers[c][i]), TimeoutOutcome}

\* C10 witness: the first attempt of a request got a network error and the
\* caller has that error
C10_Witness ==
  \E c \in Calls : answers[c] = <<"ECONNRESET">> /\ result[c] = Thrown("ECONNRESET")

\* the outcome of the upstream call that a step has just recorded for c
Answered(c) == Len(answers'[c]) = Len(answers[c]) + 1
LastAnswer(c) == answers'[c][Len(answers'[c])]

\* C11: the cache is written only by a step in which an upstream call of a
\* request with that key returned a payload, and the entry is that payload;
\* a step in which an upstream call failed leaves the cache as it was; an
\* entry is a payload or absent, never an error.
C11_CacheWrittenOnSuccessOnly ==
  [][
      /\ \A k \in Keys :
          (cache'[k] # Undefined /\ (cache'[k] # cache[k] \/ ttlLeft'[k] > ttlLeft[k]))
            => \E c \in Calls : /\ key[c] = k
                                /\ Answered(c)
                                /\ LastAnswer(c) \in Payloads
                                /\ cache'[k] = LastAnswer(c)
      /\ \A c \in Calls :
          (Answered(c) /\ LastAnswer(c) \notin Payloads)
            => cache' = cache /\ ttlLeft' = ttlLeft
      /\ \A k \in Keys : cache'[k] \in Payloads \cup {Undefined}
  ]_vars

\* one request has failed and left no entry, another has stored its payload
C11_Witness ==
  \E c, d \in Calls :
    /\ key[c] # key[d]
    /\ result[d].kind = "error" /\ cache[key[d]] = Undefined
    /\ answers[c] # <<>> /\ result[c] = Value(answers[c][Len(answers[c])])
    /\ cache[key[c]] = result[c].data

\* C12: when a request ends on a failed upstream call, its caller holds
\* that very error (status included), not another error and not a value.
C12_ErrorSurfacesUnchanged ==
  [][\A c \in Calls :
       (Answered(c) /\ LastAnswer(c) \notin Payloads /\ pc'[c] = "done")
         => result'[c] = Thrown(LastAnswer(c))]_vars

\* C13: when the queue times the caller's task out, the caller is handed a
\* timeout error and the slot is free; no task runs past the timeout.
C13_TimeoutIsAnError ==
  [][\A c \in Calls :
       /\ (taskLeft[c][0] = 0 /\ pc'[c] = pc[c] /\ taskLeft'[c][0] = Idle)
            => result'[c].kind = "error"
       /\ \A k \in Levels : taskLeft[c][k] = 0 => taskLeft'[c][k] = Idle
       /\ \A k \in Levels : taskLeft'[c][k] <= 30000]_vars

\* the lookup of call c's top-level invocation found no entry
MissedEmpty(c) == pc[c] # "idle" /\ seen[c].stored = Undefined

\* C14: requests for one key that each found the cache empty each submit
\* their own first task, and each task, when the queue starts it, makes its
\* own upstream call: it does not look at the cache again.
C14_NoCoalescing ==
  [][\A c, d \in Calls :
       (c # d /\ key'[c] = key'[d] /\ seen'[c].stored = Undefined
          /\ seen'[d].stored = Undefined /\ pc'[c] # "idle" /\ pc'[d] # "idle")
         => /\ <<d, 0>> \in Range(submitted')
            /\ (<<d, 0>> \in Range(started') \ Range(started))
                 => (pc'[d] = "fetching" /\ upstreamCalls'[d] = 1)]_vars

\* the first request held all three slots through two retries while the
\* second waited in the queue; the step in which the first stores the payload
\* frees them, and the second's task starts and calls upstream all the same
C14_Witness ==
  \E c, d \in Calls :
    /\ c # d /\ key[c] = key[d] /\ MissedEmpty(c) /\ MissedEmpty(d)
    /\ Len(answers[c]) = 3 /\ result[c] = Value(answers[c][3])
    /\ CacheHit(key[d]) /\ ttlLeft[key[d]] = TTLms
    /\ pc[d] = "fetching" /\ retryCount[d] = 0 /\ upstreamCalls[d] = 1
    /\ answers[d] = <<>> /\ taskLeft[d][0] = queue.timeout

\* the payloads of the detail fetches 1..n that succeeded, in order
RECURSIVE SucceededDetails(_)
SucceededDetails(n) ==
  IF n = 0 THEN <<>>
  ELSE IF result[n].kind = "value" /\ result[n].data \in Payloads
       THEN Append(SucceededDetails(n - 1), result[n].data)
       ELSE SucceededDetails(n - 1)

\* C15: once every detail fetch of a composite search has settled, the
\* response is the list of the payloads of the fetches that succeeded, in
\* the order of the IDs, with nothing in the place of a failed one.
C15_OnlySucceededDetails ==
  (\A c \in Calls : Returned(c)) => artworks = SucceededDetails(NCalls)

\* C16: a call that has returned holds the payload or an error.
C16_ReturnsPayloadOrError ==
  \A c \in Calls :
    Returned(c) => (result[c].kind = "error" \/ result[c].data \in Payloads)

\* fair scheduling: while a call has not returned, the event loop keeps
\* running due timers, settled promises and pending invocations
FairlyScheduled == []<>(\A c \in Calls : Returned(c)) \/ []<><<Next>>_vars

\* the termination half of C16: under fair scheduling every call returns
C16_EventuallyReturns ==
  FairlyScheduled => <>(\A c \in Calls : Returned(c))

\* C17: an upstream answer with an HTTP error status other than 403 is the
\* request's last upstream call: no backoff is armed, no further call is
\* made, and the error is thrown at once (to the caller, unless the queue
\* had already timed the caller's task out).
C17_Non403NotRetried ==
  \A c \in Calls : \A i \in 1..Len(answers[c]) :
    answers[c][i] \in HttpErrors \ {"HTTP403"}
      => /\ i = Len(answers[c]) /\ upstreamCalls[c] = i
         /\ pc[c] = "done" /\ backoffLeft[c] = Idle
         /\ pqueue = SelectSeq(pqueue, LAMBDA d : d # c)
         /\ result[c] \in {Thrown(answers[c][i]), TimeoutOutcome}

\* a 404 answers a retry attempt and reaches the caller
C17_Witness ==
  \E c \in Calls :
    answers[c] = <<"HTTP403", "HTTP404">> /\ result[c] = Thrown("HTTP404")

\* C18: the delay armed after the 403 of attempt n (n = 0, 1, 2) lies in
\* [2000 * 2^n, 2000 * 2^n + 1000) ms; every delay of a later attempt is
\* longer than every delay of an earlier one; and the next attempt is made
\* only when the armed delay has run down to zero.
C18_BackoffDelays ==
  [][
      /\ \A c \in Calls :
          (pc[c] = "fetching" /\ pc'[c] = "backoff")
            => /\ retryCount[c] \in 0..2
               /\ answers'[c][Len(answers'[c])] = "HTTP403"
               /\ backoffLeft'[c] >= 2000 * 2^retryCount[c]
               /\ backoffLeft'[c] < 2000 * 2^retryCount[c] + 1000
      /\ \A c \in Calls :
          (pc[c] = "backoff" /\ pc'[c] = "backoff")
            => (backoffLeft'[c] <= backoffLeft[c] /\ retryCount'[c] = retryCount[c])
      /\ \A c \in Calls :
          retryCount'[c] # retryCount[c]
            => /\ retryCount'[c] = retryCount[c] + 1
               /\ pc[c] = "backoff" /\ backoffLeft[c] = 0
      /\ \A n \in 0..1 : \A i, j \in Jitters :
          BackoffDelay(n, i) < BackoffDelay(n + 1, j)
  ]_vars

\* the third delay is armed with the largest jitter
C18_Witness ==
  \E c \in Calls :
    pc[c] = "backoff" /\ retryCount[c] = 2 /\ backoffLeft[c] = 8999

\* the task <<c, k>> executes and awaits a retry of its request that the
\* queue has not started
AwaitsQueuedRetry(t) ==
  t \in Executing(taskLeft) /\ pc[t[1]] = "queued" /\ t[2] < retryCount[t[1]]

\* C19: the slots are never all held by tasks that wait for a retry which
\* is itself waiting in the queue for a slot.
C19_NoRetryDeadlock ==
  ~(/\ pendingCount(taskLeft) = opts.concurrency
    /\ \A t \in Executing(taskLeft) : AwaitsQueuedRetry(t))

\* C20: when the backoff of a request ends while the cache holds an
\* unexpired entry for its key, the request ends there: nothing is
\* enqueued, no upstream call is added, and a caller still waiting is
\* handed the entry; a request makes at most four upstream calls.
C20_RetryReadsCache ==
  [][\A c \in Calls :
       /\ (pc[c] = "backoff" /\ backoffLeft[c] = 0 /\ pc'[c] # "backoff"
              /\ Get(key[c]) # Undefined)
            => /\ pc'[c] = "done"
               /\ submitted' = submitted
               /\ upstreamCalls'[c] = upstreamCalls[c]
               /\ result[c] = Pending => result'[c] = Value(Get(key[c]))
       /\ upstreamCalls'[c] <= 4]_vars
====
